---------------------------- MODULE Spec2Model ----------------------------
(***************************************************************************)
(* Model of the factory dashboard's live-state layer                       *)
(* (factory-dashboard/src/App.js): the three React state hooks             *)
(* (isConnected, timeSeriesData, bottleStates), the WebSocket callbacks    *)
(* given to useWebSocket (onOpen, onClose, onMessage, shouldReconnect),    *)
(* and React's queue of pending state updates, which a render commits.     *)
(*                                                                         *)
(* JavaScript values are tagged records, so that a field of the wrong type *)
(* stays distinguishable from a number:                                    *)
(*   [t |-> "undefined"], [t |-> "null"], [t |-> "boolean", b |-> ...],    *)
(*   [t |-> "number", n |-> ...], [t |-> "NaN"], [t |-> "string", s |-> a  *)
(*   sequence of characters], [t |-> "array", a |-> ...],                  *)
(*   [t |-> "object", m |-> a function from keys to values],               *)
(*   [t |-> "TypeError"] for an exception thrown by a property read.       *)
(* Numbers are integers in the model.                                      *)
(***************************************************************************)
EXTENDS Integers, Sequences, FiniteSets, TLC

\* ------------------------------------------------------------------ bounds

\* Frames delivered on the push channel in the general specifications.
MaxMsgs == 2
\* Frames of the numbered stream React may hold pending before a render.
MaxPending == 2
\* Connection attempts (the first connect and the reconnects after it).
MaxAttempts == 2
\* Seconds the wall clock advances.
MaxClock == 1
\* Accepted frames of the numbered stream (one more than the window holds, and one).
StreamLen == 52
\* Malformed frames interleaved with the numbered stream.
MaxMalformed == 1
\* Ticks of the poll timer of the pull channel.
MaxTicks == 2

\* ------------------------------------------------------- program constants

\* .slice(-50): the number of records the window keeps.
WindowSize == 50

\* ------------------------------------------------------- JavaScript values

Undefined == [t |-> "undefined"]
JNull == [t |-> "null"]
NaN == [t |-> "NaN"]
TypeError == [t |-> "TypeError"]
JBool(b) == [t |-> "boolean", b |-> b]
JNum(n) == [t |-> "number", n |-> n]
JStr(s) == [t |-> "string", s |-> s]
JArr(a) == [t |-> "array", a |-> a]
JObj(m) == [t |-> "object", m |-> m]
EmptyMap == [k \in {} |-> Undefined]
EmptyObject == JObj(EmptyMap)

Nullish(v) == v.t \in {"undefined", "null"}

\* ToBoolean: undefined, null, false, 0, NaN and "" are falsy, all else truthy.
Truthy(v) ==
    CASE v.t \in {"undefined", "null", "NaN"} -> FALSE
      [] v.t = "boolean" -> v.b
      [] v.t = "number" -> v.n # 0
      [] v.t = "string" -> v.s # <<>>
      [] OTHER -> TRUE

\* v.key: a TypeError on undefined and null, the own property of an object,
\* length of a string or an array, undefined otherwise.
Get(v, key) ==
    CASE v.t = "TypeError" -> TypeError
      [] Nullish(v) -> TypeError
      [] v.t = "object" -> IF key \in DOMAIN v.m THEN v.m[key] ELSE Undefined
      [] v.t = "array" -> IF key = "length" THEN JNum(Len(v.a)) ELSE Undefined
      [] v.t = "string" -> IF key = "length" THEN JNum(Len(v.s)) ELSE Undefined
      [] OTHER -> Undefined

\* v?.key
OptGet(v, key) == IF Nullish(v) THEN Undefined ELSE Get(v, key)

RECURSIVE OptChain(_, _)
OptChain(v, keys) ==
    IF keys = <<>> THEN v ELSE OptChain(OptGet(v, Head(keys)), Tail(keys))

\* data.k1?.k2?. ... ?.kn
Path(data, keys) == OptChain(Get(data, Head(keys)), Tail(keys))

\* The conditional left out: x as it is.
OneOrZeroRaw(x) == x

\* x ? 1 : 0
OneOrZero(x) ==
    IF x.t = "TypeError" THEN TypeError
    ELSE IF Truthy(x) THEN JNum(1) ELSE JNum(0)

\* The default left out: x as it is.
OrFirst(x, d) == x

\* x || d
Or(x, d) ==
    IF x.t = "TypeError" THEN TypeError ELSE IF Truthy(x) THEN x ELSE d

Digits == <<"0", "1", "2", "3", "4", "5", "6", "7", "8", "9">>
IsDigit(c) == \E i \in 1..10 : Digits[i] = c
DigitValue(c) == (CHOOSE i \in 1..10 : Digits[i] = c) - 1

RECURSIVE DecimalValue(_)
DecimalValue(s) ==
    IF s = <<>> THEN 0
    ELSE 10 * DecimalValue(SubSeq(s, 1, Len(s) - 1)) + DigitValue(s[Len(s)])

\* ToNumber of a string: "" is 0, a run of decimal digits is its value, and
\* any other text of the model's alphabet is NaN.
StringToNumber(s) ==
    IF \A i \in 1..Len(s) : IsDigit(s[i]) THEN JNum(DecimalValue(s)) ELSE NaN

\* ToNumber, as the * operator applies it to its operands.
RECURSIVE ToNumber(_)
ToNumber(v) ==
    CASE v.t = "number" -> v
      [] v.t = "NaN" -> NaN
      [] v.t = "undefined" -> NaN
      [] v.t = "null" -> JNum(0)
      [] v.t = "boolean" -> IF v.b THEN JNum(1) ELSE JNum(0)
      [] v.t = "string" -> StringToNumber(v.s)
      [] v.t = "array" ->
            IF v.a = <<>> THEN JNum(0)
            ELSE IF Len(v.a) > 1 THEN NaN
            ELSE IF Nullish(v.a[1]) THEN JNum(0)
            ELSE IF v.a[1].t \in {"boolean", "object"} THEN NaN
            ELSE ToNumber(v.a[1])
      [] v.t = "object" -> NaN
      [] OTHER -> TypeError

\* The factor left out: x as it is.
TimesNothing(x, k) == x

\* x * k
Times(x, k) ==
    LET n == ToNumber(x) IN IF n.t = "number" THEN JNum(n.n * k) ELSE n


\* ------------------------------------------------------------ the record

DigitChar(d) == Digits[d + 1]
TwoDigits(n) == <<DigitChar(n \div 10), DigitChar(n % 10)>>

\* new Date().toLocaleTimeString() at `time` seconds after midnight: the time
\* of day to the second (24-hour form; the locale decides the exact form).
LocaleTimeString(time) ==
    TwoDigits((time \div 3600) % 24) \o <<":">> \o TwoDigits((time \div 60) % 60)
        \o <<":">> \o TwoDigits(time % 60)

\* The object literal appended by the updater of setTimeSeriesData.
MetricsRecord(data, time) ==
    [ timestamp |-> JStr(LocaleTimeString(time)),
      filling |-> OneOrZero(Path(data, <<"process", "stations", "filling", "busy">>)),
      capping |-> OneOrZero(Path(data, <<"process", "stations", "capping", "busy">>)),
      labeling |-> OneOrZero(Path(data, <<"process", "stations", "labeling", "busy">>)),
      throughput |-> Or(Path(data, <<"stats", "throughput">>), JNum(0)),
      errorRate |-> Times(Or(Path(data, <<"stats", "error_rate">>), JNum(0)), 100),
      bottlesInProgress |-> Or(Path(data, <<"process", "bottles", "length">>), JNum(0)),
      fillLevel |-> Or(Path(data, <<"process", "stations", "filling", "level">>), JNum(0)),
      cappingState |->
          OneOrZero(Path(data, <<"process", "stations", "capping", "actuator_state">>)),
      labelingSpeed |->
          Or(Path(data, <<"process", "stations", "labeling", "motor_speed">>), JNum(0)),
      conveyorSpeed |-> Or(Path(data, <<"process", "conveyor_speed">>), JNum(0)),
      fillingUtilization |->
          Or(Path(data, <<"stats", "station_utilization", "filling">>), JNum(0)),
      cappingUtilization |->
          Or(Path(data, <<"stats", "station_utilization", "capping">>), JNum(0)),
      labelingUtilization |->
          Or(Path(data, <<"stats", "station_utilization", "labeling">>), JNum(0)) ]

\* A slice that was left out: the sequence as it is.
SliceNothing(seq, n) == seq

\* seq.slice(0, n): the first n elements instead of the last n.
SliceFirst(seq, n) == IF Len(seq) <= n THEN seq ELSE SubSeq(seq, 1, n)

\* seq.slice(-n)
SliceLast(seq, n) ==
    IF Len(seq) <= n THEN seq ELSE SubSeq(seq, Len(seq) - n + 1, Len(seq))

\* prev => [...prev, {...}].slice(-50)
AppendRecord(prev, data, time) ==
    SliceLast(Append(prev, MetricsRecord(data, time)), WindowSize)

\* data.bottleStates, the default left out.
SnapshotValueNoDefault(data) == Get(data, "bottleStates")

\* data.bottleStates || {}
SnapshotValue(data) == Or(Get(data, "bottleStates"), EmptyObject)

\* ------------------------------------------------------------ the frames

\* A frame of the push channel: text that is not JSON, or the text of a value.
Malformed == [wellFormed |-> FALSE, value |-> Undefined]
Frame(v) == [wellFormed |-> TRUE, value |-> v]

\* JSON.parse(message.data): the value, or a SyntaxError.
JSONparse(frame) == [threw |-> ~frame.wellFormed, value |-> frame.value]

\* onMessage without its try and catch: the SyntaxError leaves the handler.
HandleMessageNoCatch(frame) ==
    LET parsed == JSONparse(frame)
        data == parsed.value
    IN  IF parsed.threw
        THEN [ts |-> <<>>, bs |-> <<>>, logged |-> 0, escaped |-> TRUE]
        ELSE IF Truthy(data)
        THEN [ts |-> <<data>>, bs |-> <<SnapshotValue(data)>>,
              logged |-> 0, escaped |-> FALSE]
        ELSE [ts |-> <<>>, bs |-> <<>>, logged |-> 0, escaped |-> FALSE]

\* onMessage without its `if (data)`: every decoded value is handed on.
HandleMessageNoGuard(frame) ==
    LET parsed == JSONparse(frame)
        data == parsed.value
    IN  IF parsed.threw
        THEN [ts |-> <<>>, bs |-> <<>>, logged |-> 1, escaped |-> FALSE]
        ELSE [ts |-> <<data>>, bs |-> <<EmptyObject>>,
              logged |-> 0, escaped |-> FALSE]

\* onMessage with setBottleStates(data?.bottleStates || {}) after the `if`
\* instead of inside it: a skipped value still resets the snapshot.
HandleMessageSnapshotApart(frame) ==
    LET parsed == JSONparse(frame)
        data == parsed.value
    IN  IF parsed.threw
        THEN [ts |-> <<>>, bs |-> <<>>, logged |-> 1, escaped |-> FALSE]
        ELSE IF Truthy(data)
        THEN [ts |-> <<data>>, bs |-> <<SnapshotValue(data)>>,
              logged |-> 0, escaped |-> FALSE]
        ELSE [ts |-> <<>>, bs |-> <<EmptyObject>>, logged |-> 0, escaped |-> FALSE]

\* The body of onMessage: what it hands to setTimeSeriesData and to
\* setBottleStates, how often it calls console.error, and whether an
\* exception leaves it.
HandleMessage(frame) ==
    LET parsed == JSONparse(frame)
        data == parsed.value
    IN  IF parsed.threw
        THEN [ts |-> <<>>, bs |-> <<>>, logged |-> 1, escaped |-> FALSE]
        ELSE IF Truthy(data)
        THEN [ts |-> <<data>>, bs |-> <<SnapshotValue(data)>>,
              logged |-> 0, escaped |-> FALSE]
        ELSE [ts |-> <<>>, bs |-> <<>>, logged |-> 0, escaped |-> FALSE]

\* An onClose that leaves the flag set.
OnCloseValueStale == TRUE
\* A reconnect policy with a cap: it gives up at the second close.
ShouldReconnectOnce(n) == n < 2

\* onOpen: () => setIsConnected(true)
OnOpenValue == TRUE
\* onClose: () => setIsConnected(false)
OnCloseValue == FALSE
\* shouldReconnect: () => true, asked after the n-th close of the channel.
shouldReconnect(n) == TRUE

\* useState: a plain value replaces the state.
SetState(prev, value) == value

\* A snapshot merged into the one before it, label by label.
MergeBottleStates(prev, value) ==
    IF prev.t = "object" /\ value.t = "object"
    THEN JObj([k \in DOMAIN prev.m \cup DOMAIN value.m |->
                 IF k \in DOMAIN value.m THEN value.m[k] ELSE prev.m[k]])
    ELSE value

\* setBottleStates(value): the value replaces the snapshot.
SetBottleStates(prev, value) == SetState(prev, value)

RECURSIVE ApplySnapshots(_, _)
ApplySnapshots(prev, values) ==
    IF values = <<>> THEN prev
    ELSE ApplySnapshots(SetBottleStates(prev, Head(values)), Tail(values))

RECURSIVE ApplyValues(_, _)
ApplyValues(prev, values) ==
    IF values = <<>> THEN prev
    ELSE ApplyValues(SetState(prev, Head(values)), Tail(values))

\* Appends computed from the window of the last render instead of from one
\* another: setTimeSeriesData([...timeSeriesData, record].slice(-50)), of
\* which the last one wins.
ApplyUpdatersStale(prev, datas, time) ==
    IF datas = <<>> THEN prev
    ELSE AppendRecord(prev, datas[Len(datas)], time)

RECURSIVE ApplyUpdaters(_, _, _)
ApplyUpdaters(prev, datas, time) ==
    IF datas = <<>> THEN prev
    ELSE ApplyUpdaters(AppendRecord(prev, Head(datas), time), Tail(datas), time)


\* ------------------------------------------------------ the pull channel

\* No status response has arrived yet.
NoStatus == [known |-> FALSE]
\* The flat status object {modbus, mqtt, opcua} of a response.
Status(modbus, mqtt, opcua) ==
    [known |-> TRUE, modbus |-> modbus, mqtt |-> mqtt, opcua |-> opcua]
\* The responses of the status endpoint.
StatusResponses == {Status(TRUE, TRUE, TRUE), Status(TRUE, FALSE, TRUE)}
\* The ways a request fails: no answer in time, an answer that is no
\* success, an answer that cannot be decoded.
FailureKinds == {"timeout", "non-success", "parse"}
\* No error is shown.
NoError == "none"

\* ------------------------------------------------------------- the inputs

\* {process: {stations: {filling: {busy: true, level: 42}}}}
FillingData ==
    JObj([process |-> JObj([stations |->
        JObj([filling |-> JObj([busy |-> JBool(TRUE), level |-> JNum(42)])])])])

\* A frame whose discrete-state field is a mapping.
StatesData(m) == JObj([bottleStates |-> JObj(m)])

\* The frames of the general specification: text that is not JSON, the JSON
\* null, the empty object, a telemetry object without the discrete-state
\* field, and objects that carry one (empty, one label, two labels).
Frames ==
    { Malformed, Frame(JNull), Frame(EmptyObject), Frame(FillingData),
      Frame(StatesData(EmptyMap)), Frame(StatesData([filled |-> JNum(2)])),
      Frame(StatesData([capped |-> JNum(1), labeled |-> JNum(3)])) }

\* {process: null}: the object ends where the stations would begin.
TruncatedData == JObj([process |-> JNull])
\* {process: {stations: 5, bottles: [{}, {}]}}
BottlesData ==
    JObj([process |-> JObj([stations |-> JNum(5),
                            bottles |-> JArr(<<EmptyObject, EmptyObject>>)])])
\* {stats: {throughput: "fast", error_rate: {}}}: fields of the wrong type.
MistypedData ==
    JObj([stats |-> JObj([throughput |-> JStr(<<"f", "a", "s", "t">>),
                          error_rate |-> EmptyObject])])
\* {stats: {throughput: -3, error_rate: 2}, process: {conveyor_speed: 4}}
SignedData ==
    JObj([stats |-> JObj([throughput |-> JNum(-3), error_rate |-> JNum(2)]),
          process |-> JObj([conveyor_speed |-> JNum(4)])])

\* A telemetry object with every field present and of its type.
FullData ==
    JObj([process |-> JObj([
              stations |-> JObj([
                  filling |-> JObj([busy |-> JBool(TRUE), level |-> JNum(42)]),
                  capping |-> JObj([busy |-> JBool(FALSE),
                                    actuator_state |-> JBool(TRUE)]),
                  labeling |-> JObj([busy |-> JBool(TRUE),
                                     motor_speed |-> JNum(9)])]),
              bottles |-> JArr(<<EmptyObject, EmptyObject>>),
              conveyor_speed |-> JNum(4)]),
          stats |-> JObj([
              throughput |-> JNum(12),
              error_rate |-> JNum(3),
              station_utilization |->
                  JObj([filling |-> JNum(5), capping |-> JNum(6),
                        labeling |-> JNum(7)])]),
          bottleStates |-> JObj([filled |-> JNum(2)])])
\* {process: {stations: {capping: {busy: "ok", actuator_state: 7}}},
\*  bottleStates: 5}: flags and a snapshot that are no booleans and no mapping.
OddFlagsData ==
    JObj([process |-> JObj([stations |-> JObj([
              capping |-> JObj([busy |-> JStr(<<"o", "k">>),
                                actuator_state |-> JNum(7)])])]),
          bottleStates |-> JNum(5)])
\* {stats: {throughput: -3, error_rate: -2}}: numbers below zero.
NegativeData ==
    JObj([stats |-> JObj([throughput |-> JNum(-3), error_rate |-> JNum(-2)])])
\* {bottleStates: null}
StatesNullData == JObj([bottleStates |-> JNull])

\* The frames of the payload specification: every kind of top-level JSON
\* value, falsy and truthy, and objects that are empty, truncated, well
\* typed and mistyped.
PayloadFrames ==
    { Malformed, Frame(JNull), Frame(JBool(FALSE)), Frame(JNum(0)),
      Frame(JStr(<<>>)), Frame(JBool(TRUE)), Frame(JNum(7)),
      Frame(JStr(<<"o", "k">>)), Frame(JArr(<<>>)), Frame(JArr(<<JNum(1)>>)),
      Frame(EmptyObject), Frame(TruncatedData), Frame(FillingData),
      Frame(BottlesData), Frame(MistypedData), Frame(SignedData),
      Frame(StatesData([filled |-> JNum(2)])), Frame(FullData),
      Frame(OddFlagsData), Frame(StatesNullData), Frame(NegativeData) }

\* The telemetry frames that arrive while the pull channel polls.
TelemetryFrames ==
    { Frame(FillingData), Frame(StatesData([filled |-> JNum(2)])) }

\* The k-th frame of the numbered stream: {stats: {throughput: k}}.
StreamData(k) == JObj([stats |-> JObj([throughput |-> JNum(k)])])

\* -------------------------------------------------------------- the state

VARIABLES
    isConnected,     \* useState(false)
    timeSeriesData,  \* useState([])
    bottleStates,    \* useState({})
    qConnected,      \* values given to setIsConnected, not yet committed
    qTimeSeries,     \* data of the updaters given to setTimeSeriesData, not yet run
    qBottleStates,   \* values given to setBottleStates, not yet committed
    readyState,      \* the socket of useWebSocket
    attempts,        \* connection attempts begun
    lastEvent,       \* the lifecycle event (open, close, error) fired last
    lastOpenClose,   \* the open or close event fired last
    lastFrame,       \* the frame most recently delivered to onMessage
    received,        \* frames delivered to onMessage
    consoleErrors,   \* calls of console.error
    uncaught,        \* an exception has left a callback
    now,             \* the wall clock, in seconds
    pullPhase,       \* pull channel: Idle, Fetching, Healthy or Degraded
    pullConnected,   \* pull channel: connected
    pullStatus,      \* pull channel: the status values known
    pullError,       \* pull channel: the error shown to the user
    lastSuccessfulFetch,  \* pull channel: the tick of the last success
    pullLastUpdate,  \* pull channel: the tick of the last transition
    pullOutcome,     \* pull channel: how the last request ended
    ticks            \* ticks of the poll timer

vars ==
    << isConnected, timeSeriesData, bottleStates, qConnected, qTimeSeries,
       qBottleStates, readyState, attempts, lastEvent, lastOpenClose, lastFrame,
       received, consoleErrors, uncaught, now, pullPhase, pullConnected,
       pullStatus, pullError, lastSuccessfulFetch, pullLastUpdate, pullOutcome,
       ticks >>

appState == <<isConnected, timeSeriesData, bottleStates>>
queues == <<qConnected, qTimeSeries, qBottleStates>>
channel == <<readyState, attempts, lastEvent, lastOpenClose>>
inbox == <<lastFrame, received, consoleErrors, uncaught>>
pull ==
    << pullPhase, pullConnected, pullStatus, pullError, lastSuccessfulFetch,
       pullLastUpdate, pullOutcome, ticks >>

Init ==
    /\ isConnected = FALSE
    /\ timeSeriesData = <<>>
    /\ bottleStates = EmptyObject
    /\ qConnected = <<>>
    /\ qTimeSeries = <<>>
    /\ qBottleStates = <<>>
    /\ readyState = "CONNECTING"
    /\ attempts = 1
    /\ lastEvent = "none"
    /\ lastOpenClose = "none"
    /\ lastFrame = Malformed
    /\ received = 0
    /\ consoleErrors = 0
    /\ uncaught = FALSE
    /\ now = 0
    /\ pullPhase = "Idle"
    /\ pullConnected = FALSE
    /\ pullStatus = NoStatus
    /\ pullError = NoError
    /\ lastSuccessfulFetch = 0
    /\ pullLastUpdate = 0
    /\ pullOutcome = "none"
    /\ ticks = 0

\* ------------------------------------------------------------ the actions

\* The socket opens: onOpen.
Open ==
    /\ readyState = "CONNECTING"
    /\ readyState' = "OPEN"
    /\ lastEvent' = "open"
    /\ lastOpenClose' = "open"
    /\ qConnected' = Append(qConnected, OnOpenValue)
    /\ UNCHANGED <<appState, qTimeSeries, qBottleStates, attempts, inbox, now, pull>>

\* The socket reports an error (a failed connect, a broken connection); the
\* options passed to useWebSocket hold no onError, and a close follows.
ErrorEvent ==
    /\ readyState \in {"CONNECTING", "OPEN"}
    /\ readyState' = "CLOSING"
    /\ lastEvent' = "error"
    /\ UNCHANGED <<appState, queues, attempts, lastOpenClose, inbox, now, pull>>

\* A close that also drops the history gathered so far.
CloseClearing ==
    /\ readyState \in {"OPEN", "CLOSING"}
    /\ lastEvent' = "close"
    /\ lastOpenClose' = "close"
    /\ qConnected' = Append(qConnected, OnCloseValue)
    /\ timeSeriesData' = <<>>
    /\ bottleStates' = EmptyObject
    /\ readyState' = IF shouldReconnect(attempts) THEN "RECONNECTING" ELSE "CLOSED"
    /\ UNCHANGED <<isConnected, qTimeSeries, qBottleStates, attempts, inbox, now,
                   pull>>

\* The socket closes: onClose, then shouldReconnect decides on a reconnect.
Close ==
    /\ readyState \in {"OPEN", "CLOSING"}
    /\ lastEvent' = "close"
    /\ lastOpenClose' = "close"
    /\ qConnected' = Append(qConnected, OnCloseValue)
    /\ readyState' = IF shouldReconnect(attempts) THEN "RECONNECTING" ELSE "CLOSED"
    /\ UNCHANGED <<appState, qTimeSeries, qBottleStates, attempts, inbox, now, pull>>

\* The reconnect the last close asked for begins.
Reconnect ==
    /\ readyState = "RECONNECTING"
    /\ attempts < MaxAttempts
    /\ readyState' = "CONNECTING"
    /\ attempts' = attempts + 1
    /\ UNCHANGED <<appState, queues, lastEvent, lastOpenClose, inbox, now, pull>>

\* onMessage(frame)
OnMessage(frame) ==
    LET h == HandleMessage(frame)
    IN  /\ qTimeSeries' = qTimeSeries \o h.ts
        /\ qBottleStates' = qBottleStates \o h.bs
        /\ consoleErrors' = consoleErrors + h.logged
        /\ uncaught' = (uncaught \/ h.escaped)
        /\ lastFrame' = frame
        /\ received' = received + 1
        /\ UNCHANGED <<appState, qConnected, channel, now, pull>>

\* A frame arrives on the open socket.
Message ==
    /\ readyState = "OPEN"
    /\ received < MaxMsgs
    /\ \E frame \in Frames : OnMessage(frame)

\* A frame of any kind of content arrives on the open socket.
PayloadMessage ==
    /\ readyState = "OPEN"
    /\ received < MaxMsgs
    /\ \E frame \in PayloadFrames : OnMessage(frame)

\* React renders: the pending updates of each hook are applied in the order
\* they were queued, the updaters of setTimeSeriesData running now.
Render ==
    /\ queues # << <<>>, <<>>, <<>> >>
    /\ isConnected' = ApplyValues(isConnected, qConnected)
    /\ timeSeriesData' = ApplyUpdaters(timeSeriesData, qTimeSeries, now)
    /\ bottleStates' = ApplySnapshots(bottleStates, qBottleStates)
    /\ qConnected' = <<>>
    /\ qTimeSeries' = <<>>
    /\ qBottleStates' = <<>>
    /\ UNCHANGED <<channel, inbox, now, pull>>

\* A second passes.
Tick ==
    /\ now < MaxClock
    /\ now' = now + 1
    /\ UNCHANGED <<appState, queues, channel, inbox, pull>>

\* The next frame of the numbered stream arrives on the open socket.
StreamMessage ==
    /\ readyState = "OPEN"
    /\ received - consoleErrors < StreamLen
    /\ Len(qTimeSeries) < MaxPending
    /\ OnMessage(Frame(StreamData(received - consoleErrors + 1)))

\* A frame that is not JSON arrives between the frames of the stream.
StreamMalformed ==
    /\ readyState = "OPEN"
    /\ consoleErrors < MaxMalformed
    /\ OnMessage(Malformed)

\* A telemetry frame arrives on the open socket while the pull channel polls.
TelemetryMessage ==
    /\ readyState = "OPEN"
    /\ received < MaxMsgs
    /\ \E frame \in TelemetryFrames : OnMessage(frame)

\* The poll timer fires: a request is issued.
PullTick ==
    /\ pullPhase = "Idle"
    /\ ticks < MaxTicks
    /\ pullPhase' = "Fetching"
    /\ ticks' = ticks + 1
    /\ UNCHANGED <<appState, queues, channel, inbox, now, pullConnected,
                   pullStatus, pullError, lastSuccessfulFetch, pullLastUpdate,
                   pullOutcome>>

\* The request succeeds: the status values of the response are taken, the
\* error is cleared and the fetch is recorded.
PullSuccess ==
    /\ pullPhase = "Fetching"
    /\ \E response \in StatusResponses : pullStatus' = response
    /\ pullPhase' = "Healthy"
    /\ pullConnected' = TRUE
    /\ pullError' = NoError
    /\ lastSuccessfulFetch' = ticks
    /\ pullLastUpdate' = ticks
    /\ pullOutcome' = "ok"
    /\ UNCHANGED <<appState, queues, channel, inbox, now, ticks>>

\* A failed request that also forgets the status values known before.
PullFailureClearing ==
    /\ pullPhase = "Fetching"
    /\ \E kind \in FailureKinds : pullError' = kind /\ pullOutcome' = kind
    /\ pullPhase' = "Degraded"
    /\ pullConnected' = FALSE
    /\ pullStatus' = NoStatus
    /\ pullLastUpdate' = ticks
    /\ UNCHANGED <<appState, queues, channel, inbox, now, lastSuccessfulFetch,
                   ticks>>

\* The request fails: the failure is shown to the user, the status values
\* known before are kept.
PullFailure ==
    /\ pullPhase = "Fetching"
    /\ \E kind \in FailureKinds : pullError' = kind /\ pullOutcome' = kind
    /\ pullPhase' = "Degraded"
    /\ pullConnected' = FALSE
    /\ pullLastUpdate' = ticks
    /\ UNCHANGED <<appState, queues, channel, inbox, now, pullStatus,
                   lastSuccessfulFetch, ticks>>

\* The cycle of the tick ends: the channel waits for the next tick.
PullIdle ==
    /\ pullPhase \in {"Healthy", "Degraded"}
    /\ pullPhase' = "Idle"
    /\ UNCHANGED <<appState, queues, channel, inbox, now, pullConnected,
                   pullStatus, pullError, lastSuccessfulFetch, pullLastUpdate,
                   pullOutcome, ticks>>

Next == Open \/ ErrorEvent \/ Close \/ Reconnect \/ Message \/ Render \/ Tick

Spec == Init /\ [][Next]_vars

\* The channel lives through its events while the numbered stream arrives.
NextStream ==
    Open \/ ErrorEvent \/ Close \/ Reconnect \/ StreamMessage \/ StreamMalformed
        \/ Render

SpecStream == Init /\ [][NextStream]_vars

\* The pull channel polls while the push channel opens, receives, renders
\* and closes.
NextPull ==
    Open \/ Close \/ TelemetryMessage \/ Render
        \/ PullTick \/ PullSuccess \/ PullFailure \/ PullIdle

SpecPull == Init /\ [][NextPull]_vars

\* One connection receives frames of every kind of content.
NextPayloads == Open \/ PayloadMessage \/ Render \/ Tick

SpecPayloads == Init /\ [][NextPayloads]_vars

\* ------------------------------------------------- what a render will commit

PendingConnected == ApplyValues(isConnected, qConnected)
PendingWindow == ApplyUpdaters(timeSeriesData, qTimeSeries, now)
PendingSnapshot == ApplySnapshots(bottleStates, qBottleStates)

\* The step delivers a frame to onMessage.
FrameStep == received' = received + 1
\* The step is a lifecycle event of the socket (open, error, close, reconnect).
LifecycleStep == readyState' # readyState

Min(a, b) == IF a < b THEN a ELSE b


\* ---------------------------------------------------------------- claims

\* The throughput values of a window, in its order.
Throughputs(window) == [i \in 1..Len(window) |-> window[i].throughput]

\* The numbers from..to as a sequence of JavaScript numbers.
Numbered(from, to) == [i \in 1..(to - from + 1) |-> JNum(from + i - 1)]

\* Frames of the numbered stream delivered so far, and those committed.
StreamAccepted == received - consoleErrors
StreamCommitted == StreamAccepted - Len(qTimeSeries)

\* C1: after any sequence of channel events (open, close, error, well-formed
\* and malformed frames) the window holds at most 50 records, committed or
\* about to be committed.
C1_WindowBounded ==
    /\ Len(timeSeriesData) <= WindowSize
    /\ Len(PendingWindow) <= WindowSize

\* The window is full after more frames than it holds, a malformed frame and
\* a close of the channel among the events.
C1_Witness ==
    /\ Len(timeSeriesData) = WindowSize
    /\ StreamCommitted > WindowSize
    /\ consoleErrors > 0
    /\ lastEvent = "close"

\* C2: after k accepted frames the window holds exactly the records of the
\* last min(k, 50) of them, in arrival order, the most recent last: of the
\* stream with throughput 1, 2, 3, ... it holds k - min(k, 50) + 1 .. k, so
\* 2..51 after 51 frames, each append past capacity evicting the oldest.
C2_LastFiftyInOrder ==
    /\ Throughputs(timeSeriesData)
         = Numbered(StreamCommitted - Min(StreamCommitted, WindowSize) + 1,
                    StreamCommitted)
    /\ Throughputs(PendingWindow)
         = Numbered(StreamAccepted - Min(StreamAccepted, WindowSize) + 1,
                    StreamAccepted)

\* 51 frames were accepted and committed: the window holds 2..51.
C2_Witness ==
    /\ StreamAccepted = 51
    /\ qTimeSeries = <<>>
    /\ Throughputs(timeSeriesData) = Numbered(2, 51)


\* The decoded value is an object with a bottleStates field.
HasStatesField(v) == v.t = "object" /\ "bottleStates" \in DOMAIN v.m
\* The decoded value is an object whose bottleStates field is a mapping.
HasStatesMapping(v) == HasStatesField(v) /\ v.m.bottleStates.t = "object"

\* C3, as claimed: a decoded frame without the bottleStates field leaves the
\* snapshot as it was.
C3_SnapshotKeptOnAbsence ==
    [][(FrameStep /\ lastFrame'.wellFormed /\ ~HasStatesField(lastFrame'.value))
          => PendingSnapshot' = PendingSnapshot]_vars

\* C3, amended: a decoded frame without the bottleStates field resets the
\* snapshot to the empty mapping when its value is truthy (any object), and
\* leaves the snapshot as it was only when the value is falsy and the frame
\* is skipped.
C3_SnapshotResetOnAbsence ==
    [][(FrameStep /\ lastFrame'.wellFormed /\ ~HasStatesField(lastFrame'.value))
          => PendingSnapshot' =
                IF Truthy(lastFrame'.value) THEN EmptyObject ELSE PendingSnapshot]_vars

\* The snapshot {filled: 2} is committed and the frame without the field,
\* just handled, has queued the empty mapping to replace it.
C3_Witness ==
    /\ bottleStates = JObj([filled |-> JNum(2)])
    /\ lastFrame = Frame(FillingData)
    /\ qBottleStates = <<EmptyObject>>

\* C4: a frame that carries a mapping replaces the snapshot by that mapping
\* (the empty mapping empties it), and the render commits exactly the
\* mapping queued last: no label of the snapshot before it survives.
C4_SnapshotReplaced ==
    [][/\ (FrameStep /\ lastFrame'.wellFormed /\ HasStatesMapping(lastFrame'.value))
            => PendingSnapshot' = lastFrame'.value.m.bottleStates
       /\ (qBottleStates # <<>> /\ qBottleStates' = <<>>)
            => bottleStates' = qBottleStates[Len(qBottleStates)]]_vars

\* The snapshot {filled: 2} is committed and the frame with the explicit
\* empty mapping, just handled, has queued the empty mapping to replace it.
C4_Witness ==
    /\ bottleStates = JObj([filled |-> JNum(2)])
    /\ lastFrame = Frame(StatesData(EmptyMap))
    /\ qBottleStates = <<EmptyObject>>

\* C5: a frame that fails JSON decoding changes neither the window, the
\* snapshot, the connection flag nor anything queued for them; the failure
\* is caught and logged inside the handler, no exception ever leaves it, and
\* the frame after a malformed one is handled as any other.
C5_MalformedDropped ==
    [][FrameStep =>
         /\ ~lastFrame'.wellFormed
              => /\ UNCHANGED <<appState, queues>>
                 /\ consoleErrors' = consoleErrors + 1
         /\ ~uncaught'
         /\ (received > 0 /\ ~lastFrame.wellFormed
               /\ lastFrame'.wellFormed /\ Truthy(lastFrame'.value))
              => qTimeSeries' = Append(qTimeSeries, lastFrame'.value)]_vars

\* A malformed frame was dropped and logged, and the frame after it was
\* accepted and committed.
C5_Witness ==
    /\ received = 2
    /\ consoleErrors = 1
    /\ lastFrame = Frame(FillingData)
    /\ Len(timeSeriesData) = 1
    /\ ~uncaught


\* Every field of the record but the timestamp is the number 0.
AllDefault(r) ==
    \A f \in DOMAIN r \ {"timestamp"} : r[f] = JNum(0)

\* C6, as claimed: every frame that decodes hands exactly one record to the
\* window (one updater to setTimeSeriesData), whatever the decoded value is.
C6_EveryDecodedAppends ==
    [][(FrameStep /\ lastFrame'.wellFormed)
          => Len(qTimeSeries') = Len(qTimeSeries) + 1]_vars

\* C6, amended: a frame that decodes to a truthy value (an object, the empty
\* one included, an array, true, a number but 0, a string but "") hands
\* exactly one record to the window, all-default when the value is the empty
\* object, an array or no object; a frame that decodes to a falsy value
\* (null, false, 0, "") is skipped: nothing is queued for the window or the
\* snapshot.
\* Each updater queued is one record of the window a render commits, the
\* record of its frame.
C6_TruthyDecodedAppends ==
    /\ [](/\ Len(PendingWindow) = Len(timeSeriesData) + Len(qTimeSeries)
          /\ \A i \in 1..Len(qTimeSeries) :
                PendingWindow[Len(timeSeriesData) + i]
                   = MetricsRecord(qTimeSeries[i], now))
    /\ [][(FrameStep /\ lastFrame'.wellFormed) =>
            IF Truthy(lastFrame'.value)
            THEN /\ qTimeSeries' = Append(qTimeSeries, lastFrame'.value)
                 /\ (lastFrame'.value.t # "object" \/ lastFrame'.value = EmptyObject)
                       => AllDefault(MetricsRecord(lastFrame'.value, now))
            ELSE UNCHANGED <<appState, queues>>]_vars

\* A truthy value that is no object was accepted and committed as one
\* all-default record, and the JSON null after it was skipped.
C6_Witness ==
    /\ received = 2
    /\ consoleErrors = 0
    /\ lastFrame = Frame(JNull)
    /\ qTimeSeries = <<>>
    /\ Len(timeSeriesData) = 1
    /\ AllDefault(timeSeriesData[1])
    /\ bottleStates = EmptyObject

\* The fields of a record that are flags, and those that are quantities.
FlagFields == {"filling", "capping", "labeling", "cappingState"}
QuantityFields ==
    { "throughput", "errorRate", "bottlesInProgress", "fillLevel",
      "labelingSpeed", "conveyorSpeed", "fillingUtilization",
      "cappingUtilization", "labelingUtilization" }

\* The record has every field, the flags 0 or 1 and the quantities numbers.
WellTyped(r) ==
    /\ DOMAIN r = {"timestamp"} \cup FlagFields \cup QuantityFields
    /\ r.timestamp.t = "string"
    /\ \A f \in FlagFields : r[f] \in {JNum(0), JNum(1)}
    /\ \A f \in QuantityFields : r[f].t = "number"

\* C7, as claimed: every record of the window has every field present and
\* type-correct, a field of the wrong type having been replaced by 0.
C7_RecordsWellTyped ==
    \A i \in 1..Len(PendingWindow) : WellTyped(PendingWindow[i])

\* C8, as claimed: the flag is true exactly when the lifecycle event fired
\* last (open, close or error) was an open.
C8_FlagFollowsLastEvent == PendingConnected <=> (lastEvent = "open")

\* C8, amended: the flag starts false, an open sets it and a close clears it
\* from any state, and an error event by itself leaves it as it is (no
\* handler is registered for it): the flag is true exactly when the open or
\* close event fired last was an open.
C8_FlagFollowsOpenClose ==
    /\ PendingConnected <=> (lastOpenClose = "open")
    /\ qConnected = <<>> => (isConnected <=> (lastOpenClose = "open"))

\* An error was reported on the open channel, the close has not followed
\* yet, and the committed flag is still true.
C8_Witness ==
    /\ lastEvent = "error"
    /\ lastOpenClose = "open"
    /\ qConnected = <<>>
    /\ isConnected

C10_LifecycleAndFramesApart ==
    [][/\ LifecycleStep
            => UNCHANGED <<timeSeriesData, bottleStates, qTimeSeries, qBottleStates>>
       /\ FrameStep => UNCHANGED <<isConnected, qConnected>>]_vars

\* The channel was closed, the close is committed and the reconnect is under
\* way: the two records and the snapshot of the frames received before the
\* close are in place.
C10_Witness ==
    /\ attempts = 2
    /\ readyState = "CONNECTING"
    /\ ~isConnected
    /\ qConnected = <<>>
    /\ received = 2
    /\ Len(timeSeriesData) = 2
    /\ bottleStates = JObj([filled |-> JNum(2)])


\* The value at a path of the decoded object, read field by field: undefined
\* where the path leaves the object.
RECURSIVE Raw(_, _)
Raw(d, keys) ==
    IF keys = <<>> THEN d
    ELSE IF d.t = "object" /\ Head(keys) \in DOMAIN d.m
         THEN Raw(d.m[Head(keys)], Tail(keys))
         ELSE Undefined

\* The record of the i-th frame waiting for the render (the window of the
\* payload specifications never fills).
PendingRecord(i) == PendingWindow[Len(timeSeriesData) + i]

\* A flag of the record follows its boolean: 1 when true, 0 when false or absent.
FlagCarried(d, keys, flag) ==
    Raw(d, keys).t \in {"boolean", "undefined"}
        => flag = IF Raw(d, keys) = JBool(TRUE) THEN JNum(1) ELSE JNum(0)

\* A quantity of the record is the number of the payload, 0 when absent.
NumberCarried(d, keys, quantity) ==
    /\ Raw(d, keys).t = "number" => quantity = Raw(d, keys)
    /\ Raw(d, keys).t = "undefined" => quantity = JNum(0)

\* The record r carries the well-typed fields of the payload d.
Carried(d, r) ==
    /\ FlagCarried(d, <<"process", "stations", "filling", "busy">>, r.filling)
    /\ FlagCarried(d, <<"process", "stations", "capping", "busy">>, r.capping)
    /\ FlagCarried(d, <<"process", "stations", "labeling", "busy">>, r.labeling)
    /\ FlagCarried(d, <<"process", "stations", "capping", "actuator_state">>,
                   r.cappingState)
    /\ NumberCarried(d, <<"process", "stations", "filling", "level">>, r.fillLevel)
    /\ NumberCarried(d, <<"stats", "throughput">>, r.throughput)
    /\ Raw(d, <<"stats", "error_rate">>).t = "number"
          => r.errorRate = JNum(Raw(d, <<"stats", "error_rate">>).n * 100)
    /\ Raw(d, <<"stats", "error_rate">>).t = "undefined" => r.errorRate = JNum(0)
    /\ Raw(d, <<"process", "bottles">>).t = "array"
          => r.bottlesInProgress = JNum(Len(Raw(d, <<"process", "bottles">>).a))
    /\ Raw(d, <<"process", "bottles">>).t = "undefined"
          => r.bottlesInProgress = JNum(0)

\* C11: the record of a frame carries the fields of the payload that are
\* present and well typed: the busy flags and the capping actuator state are
\* 1 when true and 0 otherwise, fillLevel is filling.level, throughput is
\* stats.throughput, errorRate is stats.error_rate * 100, bottlesInProgress
\* is the number of entries of process.bottles; the frame
\* {process: {stations: {filling: {busy: true, level: 42}}}} gives filling 1,
\* fillLevel 42, capping 0 and throughput 0.
C11_FieldsCarriedThrough ==
    LET window == PendingWindow
    IN  \A i \in 1..Len(qTimeSeries) :
            LET r == window[Len(timeSeriesData) + i]
            IN  /\ Carried(qTimeSeries[i], r)
                /\ qTimeSeries[i] = FillingData
                      => /\ r.filling = JNum(1)
                         /\ r.fillLevel = JNum(42)
                         /\ r.capping = JNum(0)
                         /\ r.throughput = JNum(0)

\* The frame with every field is waiting for the render, and its record
\* carries its flags, its numbers, its error rate times 100 and its two
\* bottles.
C11_Witness ==
    /\ qTimeSeries = <<FullData>>
    /\ PendingRecord(1).filling = JNum(1)
    /\ PendingRecord(1).capping = JNum(0)
    /\ PendingRecord(1).cappingState = JNum(1)
    /\ PendingRecord(1).throughput = JNum(12)
    /\ PendingRecord(1).errorRate = JNum(300)
    /\ PendingRecord(1).bottlesInProgress = JNum(2)


\* C12: whatever the payload, the three station flags and the capping state
\* of every record, in the window and waiting for the render, are 0 or 1.
C12_FlagsZeroOrOne ==
    /\ \A i \in 1..Len(timeSeriesData) : \A f \in FlagFields :
           timeSeriesData[i][f] \in {JNum(0), JNum(1)}
    /\ LET window == PendingWindow
       IN  \A i \in 1..Len(window) : \A f \in FlagFields :
               window[i][f] \in {JNum(0), JNum(1)}

\* The window holds the record of a frame whose capping flag was the string
\* "ok" and whose actuator state was the number 7: both became 1.
C12_Witness ==
    /\ lastFrame = Frame(OddFlagsData)
    /\ qTimeSeries = <<>>
    /\ Len(timeSeriesData) = 1
    /\ timeSeriesData[1].capping = JNum(1)
    /\ timeSeriesData[1].cappingState = JNum(1)
    /\ timeSeriesData[1].filling = JNum(0)


\* A number that is not below zero.
NonNegative(v) == v.t = "number" /\ v.n >= 0

\* The field of the payload is absent or a number.
AbsentOrNumber(v) == v.t \in {"undefined", "number"}

\* C13, as claimed, for the payloads whose throughput and error rate are
\* numbers or absent, the numbers below zero included: the record of the
\* frame has throughput >= 0 and errorRate >= 0.
C13_RecordsNonNegative ==
    \A i \in 1..Len(qTimeSeries) :
        /\ AbsentOrNumber(Raw(qTimeSeries[i], <<"stats", "throughput">>))
              => NonNegative(PendingRecord(i).throughput)
        /\ AbsentOrNumber(Raw(qTimeSeries[i], <<"stats", "error_rate">>))
              => NonNegative(PendingRecord(i).errorRate)

\* C13, as the code has it: the record of a frame has throughput >= 0 and
\* errorRate >= 0 when stats.throughput and stats.error_rate are absent or
\* numbers that are not below zero; a number below zero passes through
\* (the error rate times 100); bottlesInProgress is an integer >= 0 when
\* process.bottles is absent or an array.
C13_NonNegativeUnlessNegativeInput ==
    LET window == PendingWindow
    IN
    \A i \in 1..Len(qTimeSeries) :
        LET d == qTimeSeries[i]
            r == window[Len(timeSeriesData) + i]
            tp == Raw(d, <<"stats", "throughput">>)
            er == Raw(d, <<"stats", "error_rate">>)
            bs == Raw(d, <<"process", "bottles">>)
        IN  /\ tp.t = "undefined" \/ NonNegative(tp) => NonNegative(r.throughput)
            /\ tp.t = "number" /\ tp.n < 0 => r.throughput = tp
            /\ er.t = "undefined" \/ NonNegative(er) => NonNegative(r.errorRate)
            /\ er.t = "number" /\ er.n < 0 => r.errorRate = JNum(er.n * 100)
            /\ bs.t \in {"undefined", "array"}
                  => /\ NonNegative(r.bottlesInProgress)
                     /\ r.bottlesInProgress.n \in Nat

\* The frame with the numbers below zero is waiting for the render: its
\* record has throughput -3, errorRate -200 and no bottle in progress.
C13_Witness ==
    /\ qTimeSeries = <<NegativeData>>
    /\ PendingRecord(1).throughput = JNum(-3)
    /\ PendingRecord(1).errorRate = JNum(-200)
    /\ PendingRecord(1).bottlesInProgress = JNum(0)


\* The step ends a request of the pull channel.
PullCompletes == pullPhase = "Fetching" /\ pullPhase' # "Fetching"

\* C14: a request of the pull channel that fails (no answer in time, an
\* answer that is no success, an answer that cannot be decoded) makes the
\* channel Degraded, keeps the modbus, mqtt and opcua values known before,
\* sets the error shown to the user, and leaves the push channel, the
\* window and the snapshot as they were; the error stays until a request
\* succeeds, and that request clears it and makes the channel Healthy.
C14_PullFailureContained ==
    /\ [](pullError # NoError <=> pullOutcome \in FailureKinds)
    /\ [][/\ PullCompletes /\ pullOutcome' \in FailureKinds
              => /\ pullPhase' = "Degraded"
                 /\ pullStatus' = pullStatus
                 /\ pullError' \in FailureKinds
                 /\ UNCHANGED <<appState, queues, channel, inbox>>
          /\ PullCompletes /\ pullOutcome' = "ok"
              => /\ pullPhase' = "Healthy"
                 /\ pullError' = NoError
                 /\ pullStatus' \in StatusResponses
                 /\ lastSuccessfulFetch' = ticks
          /\ ~PullCompletes => UNCHANGED <<pullStatus, pullError, pullOutcome>>]_vars

\* The second request timed out after the first had succeeded: the channel
\* is Degraded, the error is shown, the status of the first response is
\* still there, and the push channel is open with its record and snapshot.
C14_Witness ==
    /\ pullPhase = "Degraded"
    /\ pullError = "timeout"
    /\ pullStatus = Status(TRUE, FALSE, TRUE)
    /\ lastSuccessfulFetch = 1
    /\ ticks = 2
    /\ readyState = "OPEN"
    /\ Len(timeSeriesData) = 1
    /\ bottleStates = JObj([filled |-> JNum(2)])


\* The throughput values of the payloads waiting for the render, in the
\* order of their arrival.
QueuedThroughputs ==
    [i \in 1..Len(qTimeSeries) |-> Raw(qTimeSeries[i], <<"stats", "throughput">>)]

\* The step is a render that commits the appends waiting.
RenderStep == qTimeSeries # <<>> /\ qTimeSeries' = <<>>

\* C15: no accepted frame is lost to batching: when several frames were
\* handled before a render, the render leaves in the window the records of
\* all of them, in arrival order, after the records that were there (the
\* oldest evicted past 50), each append being applied to the result of the
\* append before it.
C15_NoAppendLostToBatching ==
    /\ [](Throughputs(PendingWindow)
            = SliceLast(Throughputs(timeSeriesData) \o QueuedThroughputs,
                        WindowSize))
    /\ [][RenderStep
            => Throughputs(timeSeriesData')
                 = SliceLast(Throughputs(timeSeriesData) \o QueuedThroughputs,
                             WindowSize)]_vars

\* Two frames of the stream, the 51st and the 52nd, were handled since the
\* last render, which left the window full.
C15_Witness ==
    /\ Len(qTimeSeries) = 2
    /\ Len(timeSeriesData) = WindowSize
    /\ QueuedThroughputs = Numbered(51, 52)
    /\ Throughputs(PendingWindow) = Numbered(3, 52)


\* The snapshot a decoded value carries: its bottleStates field when it has
\* one that is truthy, the empty mapping otherwise.
SnapshotOf(d) ==
    IF HasStatesField(d) /\ Truthy(d.m.bottleStates)
    THEN d.m.bottleStates ELSE EmptyObject

\* The frame is not JSON, or decodes to a value the handler skips.
Dropped(frame) == ~frame.wellFormed \/ ~Truthy(frame.value)

\* C16: a frame updates the window and the snapshot together or not at
\* all: either its record is appended and the snapshot is set from that
\* same frame, or (the frame is not JSON, or is skipped) window and
\* snapshot, committed and waiting, are exactly as before; so the appends
\* and the snapshots waiting for a render always pair up.
C16_WindowAndSnapshotTogether ==
    /\ [](/\ Len(qTimeSeries) = Len(qBottleStates)
          /\ \A i \in 1..Len(qTimeSeries) :
                 qBottleStates[i] = SnapshotOf(qTimeSeries[i]))
    /\ [][FrameStep
            => IF Dropped(lastFrame')
               THEN UNCHANGED <<timeSeriesData, qTimeSeries, bottleStates,
                                qBottleStates>>
               ELSE /\ qTimeSeries' = Append(qTimeSeries, lastFrame'.value)
                    /\ qBottleStates'
                         = Append(qBottleStates, SnapshotOf(lastFrame'.value))
                    /\ UNCHANGED <<timeSeriesData, bottleStates>>]_vars

\* A frame with a snapshot was handled, then a frame that decodes to null:
\* the record and the snapshot of the first wait together, the second
\* added to neither.
C16_Witness ==
    /\ received = 2
    /\ lastFrame = Frame(JNull)
    /\ qTimeSeries = <<StatesData([filled |-> JNum(2)])>>
    /\ qBottleStates = <<JObj([filled |-> JNum(2)])>>


\* The value can be enumerated by Object.entries: it is not undefined, not
\* null, and no exception stands in its place.
Enumerable(v) == ~Nullish(v) /\ v.t # "TypeError"

\* C17: the snapshot is always a defined value, never null or undefined,
\* so enumerating its entries cannot fail: it starts as the empty mapping,
\* and every frame that sets it sets it to its bottleStates value or to
\* the empty mapping.
C17_SnapshotAlwaysDefined ==
    /\ Enumerable(bottleStates)
    /\ Enumerable(PendingSnapshot)
    /\ received = 0 => bottleStates = EmptyObject
    /\ \A i \in 1..Len(qBottleStates) :
           /\ Enumerable(qBottleStates[i])
           /\ qBottleStates[i]
                \in {Raw(qTimeSeries[i], <<"bottleStates">>), EmptyObject}

\* The frame {bottleStates: null} was handled and rendered: the snapshot
\* is the empty mapping.
C17_Witness ==
    /\ lastFrame = Frame(StatesNullData)
    /\ qBottleStates = <<>>
    /\ Len(timeSeriesData) = 1
    /\ bottleStates = EmptyObject

=============================================================================
